---- MODULE Spec2Model ----
(***************************************************************************)
(* ConfidentialPayrollSystem (payroll-contracts): the role-gated payroll   *)
(* operations over encrypted 64-bit values, the decrypt-grant relation     *)
(* and the pay-period counter.                                             *)
(*                                                                         *)
(* An encrypted value (euint64) is modelled by the plaintext it encrypts   *)
(* and the set of principals that hold a decrypt grant on it.  Every FHE   *)
(* operation yields a new ciphertext that nobody holds a grant on; every   *)
(* external input is a ciphertext the caller encrypted for that call.      *)
(* Plaintexts are 64-bit words, kept as four 16-bit limbs (least           *)
(* significant first) so that the arithmetic is exactly modulo 2^64.       *)
(*                                                                         *)
(* PayrollToken, the confidential token the system is deployed with, is    *)
(* modelled next to it: its payroll managers, encrypted balances and       *)
(* pending tax withholdings.                                               *)
(*                                                                         *)
(* The access-control registry of the contract test suite and the front    *)
(* end follow: the EncryptedDataDisplay component, the useWallet and       *)
(* useRole hooks, RoleGuard and the dashboard routes.  A front-end action  *)
(* is one event with the state updates, the render and the effects it      *)
(* causes; an async function is split at its awaits.                       *)
(***************************************************************************)
EXTENDS Integers, Sequences, FiniteSets, TLC

\* ------------------------------------------------------------- bounds
\* pay periods run under Spec and SpecPay, and under SpecClock
MaxPeriod == 1
MaxClockPeriod == 2
\* bonuses that may be pending for one employee at a time
MaxPendingBonuses == 1
\* days of block time
MaxTime == 14
\* tax withholdings that may be pending, in token units
MaxPendingTax == 2
\* items of one batchProcessPayroll call
MaxBatch == 2
\* employee records the registry holds
MaxEmployeeIds == 2
\* decrypt requests one EncryptedDataDisplay sends
MaxDecryptRequests == 4

\* ------------------------------------------------- 64-bit plaintexts
\* a word is four 16-bit limbs, least significant first
Limbs == 1..4
Radix == 2^16
Half == 2^8

\* the 64-bit word of a natural number below 2^31
U64(n) == <<n % Radix, n \div Radix, 0, 0>>

Zero64 == U64(0)

\* the limbs of a + b and, fifth, the carry out of the top limb
AddLimbs(a, b) ==
    LET s1 == a[1] + b[1]
        s2 == a[2] + b[2] + (s1 \div Radix)
        s3 == a[3] + b[3] + (s2 \div Radix)
        s4 == a[4] + b[4] + (s3 \div Radix)
    IN <<s1 % Radix, s2 % Radix, s3 % Radix, s4 % Radix, s4 \div Radix>>

\* FHE.add on the plaintexts: a + b modulo 2^64
Add64(a, b) == SubSeq(AddLimbs(a, b), 1, 4)
AddWraps(a, b) == AddLimbs(a, b)[5] # 0

\* the limbs of a - b and, fifth, the borrow out of the top limb
SubLimbs(a, b) ==
    LET d1 == a[1] - b[1]
        d2 == a[2] - b[2] - (IF d1 < 0 THEN 1 ELSE 0)
        d3 == a[3] - b[3] - (IF d2 < 0 THEN 1 ELSE 0)
        d4 == a[4] - b[4] - (IF d3 < 0 THEN 1 ELSE 0)
    IN <<(Radix + d1) % Radix, (Radix + d2) % Radix, (Radix + d3) % Radix,
         (Radix + d4) % Radix, IF d4 < 0 THEN 1 ELSE 0>>

\* FHE.sub on the plaintexts: a - b modulo 2^64
Sub64(a, b) == SubSeq(SubLimbs(a, b), 1, 4)
SubWraps(a, b) == SubLimbs(a, b)[5] # 0

\* the product of two limbs as <<low limb, high limb>>
LimbProduct(x, y) ==
    LET xl == x % Half
        xh == x \div Half
        yl == y % Half
        yh == y \div Half
        mid == xh * yl + xl * yh
        low == xl * yl + (mid % Half) * Half
    IN <<low % Radix, xh * yh + (mid \div Half) + (low \div Radix)>>

\* part 1 (low) or 2 (high) of the limb product a[i] * b[j], 0 off the word
Term(p, i, j, part) ==
    IF i \in Limbs /\ j \in Limbs THEN p[i][j][part] ELSE 0

\* what the limb products contribute to limb k of the full product
Column(p, k) ==
    Term(p, 1, k, 1) + Term(p, 2, k - 1, 1) + Term(p, 3, k - 2, 1)
    + Term(p, 4, k - 3, 1) + Term(p, 1, k - 1, 2) + Term(p, 2, k - 2, 2)
    + Term(p, 3, k - 3, 2) + Term(p, 4, k - 4, 2)

\* the eight limbs of the full product a * b
MulLimbs(a, b) ==
    LET p == [i \in Limbs |-> [j \in Limbs |-> LimbProduct(a[i], b[j])]]
        s1 == Column(p, 1)
        s2 == Column(p, 2) + (s1 \div Radix)
        s3 == Column(p, 3) + (s2 \div Radix)
        s4 == Column(p, 4) + (s3 \div Radix)
        s5 == Column(p, 5) + (s4 \div Radix)
        s6 == Column(p, 6) + (s5 \div Radix)
        s7 == Column(p, 7) + (s6 \div Radix)
        s8 == Column(p, 8) + (s7 \div Radix)
    IN <<s1 % Radix, s2 % Radix, s3 % Radix, s4 % Radix,
         s5 % Radix, s6 % Radix, s7 % Radix, s8 % Radix>>

\* FHE.mul on the plaintexts: a * b modulo 2^64
Mul64(a, b) == SubSeq(MulLimbs(a, b), 1, 4)
MulWraps(a, b) == SubSeq(MulLimbs(a, b), 5, 8) # <<0, 0, 0, 0>>

Lt64(a, b) ==
    \E i \in Limbs : a[i] < b[i] /\ \A j \in (i+1)..4 : a[j] = b[j]
Le64(a, b) == a = b \/ Lt64(a, b)

\* ------------------------------------------------------- principals
ZeroAddress == "0x0"
Owner == "owner"
EmployerAcct == "employer"
AuditorAcct == "auditor"
Employee1 == "employee1"
This == "payrollSystem"
PaymentToken == "payrollToken"

Callers == {Owner, EmployerAcct, AuditorAcct, Employee1}
EmployeeAddrs == {ZeroAddress, Employee1}

DEFAULT_ADMIN_ROLE == "DEFAULT_ADMIN_ROLE"
EMPLOYER_ROLE == "EMPLOYER_ROLE"
PAYROLL_ADMIN_ROLE == "PAYROLL_ADMIN_ROLE"
AUDITOR_ROLE == "AUDITOR_ROLE"

\* the role grants of the deployment set-up
Grantable == {<<EMPLOYER_ROLE, EmployerAcct>>, <<AUDITOR_ROLE, AuditorAcct>>}

\* ------------------------------------------------------ input values
payPeriodDays == 14
MIN_SALARY == Mul64(U64(1000), U64(10^6))
MAX_SALARY == Mul64(U64(1000000), U64(10^6))
TEST_BONUS == Mul64(U64(10000), U64(10^6))
ExampleSalary == U64(5000000)
ExampleTaxRate == U64(20)

Salaries == {MIN_SALARY, MAX_SALARY}
TaxRates == {U64(0), ExampleTaxRate}
Bonuses == {TEST_BONUS}
\* the pending bonus up to which the model lets bonuses accumulate
BonusCap == Mul64(U64(MaxPendingBonuses), TEST_BONUS)
Periods == 1..(MaxPeriod + MaxClockPeriod)

\* PayrollToken: the deployer owns the token and holds the initial supply
TaxAuthority == "taxAuthority"
Employee2 == "employee2"
TokenCallers == {Owner, EmployerAcct, Employee1}
TokenHolders == {Owner, EmployerAcct, Employee1, Employee2, TaxAuthority}
\* amounts are multiples of 100000 tokens of 6 decimals
TokenUnit == Mul64(U64(100000), U64(10^6))
Units(n) == Mul64(U64(n), TokenUnit)
initialSupply == Mul64(U64(1000000), U64(10^6))
PendingCap == Units(MaxPendingTax)

\* the accounts of the access-control deployment
Admin == "admin"
Employer1 == "employer1"
Employer2 == "employer2"
Auditor1 == "auditor1"
AccessCallers == {Admin, Employer1, Employer2, Employee1, Auditor1,
                  "unauthorized"}
RegisteredEmployers == {Employer1, Employer2}
EmployeeIds == 1..MaxEmployeeIds

\* -------------------------------------------------- encrypted values
\* a ciphertext no principal holds a grant on
Fresh(v) == [init |-> TRUE, val |-> v, allowed |-> {}]
\* the zero handle of a storage slot that was never written
Unset == [init |-> FALSE, val |-> Zero64, allowed |-> {}]

asEuint64(v) == Fresh(v)
fromExternal(plain) == Fresh(plain)
FHEadd(a, b) == Fresh(Add64(a.val, b.val))
FHEsub(a, b) == Fresh(Sub64(a.val, b.val))
FHEmul(a, b) == Fresh(Mul64(a.val, b.val))
allow(c, p) == [c EXCEPT !.allowed = @ \cup {p}]
allowThis(c) == allow(c, This)

\* ------------------------------------------------------------- state
VARIABLES
    roles,             \* AccessControl: set of <<role, account>>
    employees,         \* mapping(address => EmployeeData)
    paymentHistory,    \* mapping(address => mapping(uint256 => euint64))
    config,            \* PayrollConfig
    currentPayPeriod,
    totalEmployees,
    now,               \* block.timestamp, in days
    lastCall           \* the latest transaction: caller, arguments, outcome

\* PayrollToken
VARIABLES
    payrollManagers,      \* mapping(address => bool), as the set of managers
    pendingWithholdings,  \* mapping(address => euint64)
    balances,             \* ConfidentialFungibleToken._balances
    totalSupply,          \* ConfidentialFungibleToken._totalSupply
    tokenCall             \* the latest token transaction

\* PayrollAccessControl and the employee registry of PayrollSystem
VARIABLES
    employers,         \* the registered, active employers
    auditorAccess,     \* set of <<auditor, employer>>: the standing grants
    employeeRecords,   \* employeeId => [employee, employer], or NoRecord
    accessCall         \* the latest call to the access-controlled registry

\* EncryptedDataDisplay: the component's state, the wallet's permission on the
\* value, the latest event and the number of decrypt requests sent
VARIABLES display

\* useWallet, the wallet extension it talks to, and useRole
VARIABLES
    walletState,        \* useState<WalletState>
    provider,           \* useState<BrowserProvider | null>
    signer,             \* useState<JsonRpcSigner | null>: <<its account>>
    walletEvent,        \* the latest event useWallet handled
    ethereum,           \* window.ethereum: the accounts it exposes, its chain
    checkConnectionOp,  \* the checkConnection call of the mount effect
    connectOp,          \* the connect call in progress
    auth,               \* useRole: user, isLoading and the fetches in flight
    guardView,          \* the latest rendering of a RoleGuard
    location            \* the router's pathname

storage == <<roles, employees, paymentHistory, config, currentPayPeriod,
             totalEmployees>>
tokenStorage == <<payrollManagers, pendingWithholdings, balances, totalSupply>>
tokenVars == <<payrollManagers, pendingWithholdings, balances, totalSupply,
               tokenCall>>
accessVars == <<employers, auditorAccess, employeeRecords, accessCall>>
\* everything outside the two deployed contracts
walletVars == <<walletState, provider, signer, walletEvent, ethereum,
                checkConnectionOp, connectOp>>
appVars == <<accessVars, display, walletVars, auth, guardView, location>>
\* the two deployed contracts and the block time
chainVars == <<storage, now, lastCall, tokenVars>>
vars == <<roles, employees, paymentHistory, config, currentPayPeriod,
          totalEmployees, now, lastCall, payrollManagers, pendingWithholdings,
          balances, totalSupply, tokenCall, accessVars, display, walletVars,
          auth, guardView, location>>

NoEmployee ==
    [encryptedSalary |-> Unset, encryptedBonus |-> Unset,
     encryptedTaxRate |-> Unset, encryptedYTDEarnings |-> Unset,
     encryptedYTDTax |-> Unset, lastPaymentTimestamp |-> 0,
     isActive |-> FALSE]

\* the record of a transaction: input is the plaintext of its encrypted
\* argument, count the employee count of the PayrollProcessed event, wrapped
\* whether one of its 64-bit steps wrapped, totalPaid / totalTax the
\* aggregate ciphertexts of a compliance report, returned the report hash
Call(op, caller, employee, status) ==
    [op |-> op, caller |-> caller, employee |-> employee, status |-> status,
     input |-> Zero64, count |-> 0, wrapped |-> FALSE,
     totalPaid |-> Unset, totalTax |-> Unset, returned |-> <<>>]

\* a reverted transaction: nothing but its outcome is recorded
Revert(op, caller, employee, reason) ==
    /\ lastCall' = Call(op, caller, employee, reason)
    /\ UNCHANGED storage

hasRole(role, account) == <<role, account>> \in roles

Roles == {DEFAULT_ADMIN_ROLE, EMPLOYER_ROLE, PAYROLL_ADMIN_ROLE, AUDITOR_ROLE}

\* mutant: the modifier admits a caller that holds any role at all
onlyRole_anyRole(role, caller) == \E r \in Roles : hasRole(r, caller)

\* the onlyRole modifier: the caller passes when it holds the role
onlyRole(role, caller) == hasRole(role, caller)

\* ------------------------------------------- ConfidentialFungibleToken
\* grants of a balance the token writes: the token itself and the holder
tokenAllow(c, holder) == allow(allow(c, PaymentToken), holder)

\* mutant: an underflowing decrease leaves the value and reports success
tryDecrease_reportsSuccess(oldValue, delta) ==
    [success |-> TRUE,
     updated |-> IF Le64(delta, oldValue) THEN Sub64(oldValue, delta) ELSE oldValue]

\* FHESafeMath.tryDecrease: the difference when it does not underflow
tryDecrease(oldValue, delta) ==
    [success |-> Le64(delta, oldValue),
     updated |-> IF Le64(delta, oldValue) THEN Sub64(oldValue, delta) ELSE oldValue]

\* FHESafeMath.tryIncrease on a ciphertext that may be uninitialised
tryIncrease(old, delta) ==
    IF ~old.init THEN [success |-> TRUE, updated |-> delta]
    ELSE [success |-> ~AddWraps(old.val, delta),
          updated |-> IF AddWraps(old.val, delta) THEN old.val
                      ELSE Add64(old.val, delta)]

\* _update(from, to, amount) on tk = [balances, totalSupply]: ok is FALSE
\* when the sender's balance was never initialised (the call reverts);
\* transferred is the amount that moved
update(tk, from, to, amount) ==
    LET inc == tryIncrease(tk.totalSupply, amount)
        dec == tryDecrease(tk.balances[from].val, amount)
        ok == from = ZeroAddress \/ tk.balances[from].init
        success == IF from = ZeroAddress THEN inc.success ELSE dec.success
        transferred == IF success THEN amount ELSE Zero64
        supply1 == IF from = ZeroAddress
                   THEN allow(Fresh(inc.updated), PaymentToken)
                   ELSE tk.totalSupply
        bal1 == IF from = ZeroAddress THEN tk.balances
                ELSE [tk.balances EXCEPT
                        ![from] = tokenAllow(Fresh(dec.updated), from)]
        supply2 == IF to = ZeroAddress
                   THEN allow(Fresh(Sub64(supply1.val, transferred)), PaymentToken)
                   ELSE supply1
        bal2 == IF to = ZeroAddress THEN bal1
                ELSE [bal1 EXCEPT
                        ![to] = tokenAllow(Fresh(Add64(bal1[to].val, transferred)),
                                           to)]
    IN [ok |-> ok, balances |-> bal2, totalSupply |-> supply2,
        transferred |-> transferred]

\* the sum of the balances of the accounts in S, and whether it wrapped
RECURSIVE sumOfBalances(_, _)
sumOfBalances(bal, S) ==
    IF S = {} THEN [val |-> Zero64, wrapped |-> FALSE]
    ELSE LET a == CHOOSE x \in S : TRUE
             rest == sumOfBalances(bal, S \ {a})
         IN [val |-> Add64(rest.val, bal[a].val),
             wrapped |-> rest.wrapped \/ AddWraps(rest.val, bal[a].val)]

\* the token after its constructor: the supply minted to the deployer
minted ==
    update([balances |-> [a \in TokenHolders |-> Unset], totalSupply |-> Unset],
           ZeroAddress, Owner, initialSupply)

\* the record of a token transaction: items are its (employee, grossPay,
\* taxAmount) arguments as plaintexts, moved the amounts the transfers moved,
\* mismatch whether the three arrays of a batch differed in length
TokenCall(op, caller, status) ==
    [op |-> op, caller |-> caller, status |-> status, target |-> ZeroAddress,
     items |-> <<>>, moved |-> <<>>, mismatch |-> FALSE]

\* an employee id nothing is registered under
NoRecord == [employee |-> ZeroAddress, employer |-> ZeroAddress]

\* the record of a registry call: employeeId is 0 when the call names none
AccessCall(op, caller, employeeId, status) ==
    [op |-> op, caller |-> caller, employeeId |-> employeeId,
     status |-> status]

\* a React state that holds null, or <<v>> for the value v
null == <<>>

\* useWallet's initial state
disconnectedState ==
    [isConnected |-> FALSE, address |-> null, chainId |-> null,
     isConnecting |-> FALSE, error |-> null]

\* an asynchronous call that is not running
idle == [pc |-> "idle", accounts |-> null, chainId |-> null, signer |-> null]
\* ... and one waiting at the named await
awaiting(op, at) == [op EXCEPT !.pc = at]

\* the chain of the deployment
ZAMA_DEVNET == 8009

Init ==
    /\ walletState = disconnectedState
    /\ provider = null
    /\ signer = null
    /\ walletEvent = "mount"
    /\ ethereum = [accounts |-> null, chainId |-> ZAMA_DEVNET]
    /\ checkConnectionOp = awaiting(idle, "listAccounts")
    /\ connectOp = idle
    /\ auth = [user |-> null, isLoading |-> FALSE, fetches |-> {}]
    /\ guardView = [props |-> null, user |-> null, view |-> "none"]
    /\ location = "/login"
    /\ display = [isVisible |-> FALSE, decryptedValue |-> null,
                  isDecrypting |-> FALSE, error |-> null, canDecrypt |-> FALSE,
                  event |-> "mount", requests |-> 0]
    /\ employers = {}
    /\ auditorAccess = {}
    /\ employeeRecords = [i \in EmployeeIds |-> NoRecord]
    /\ accessCall = AccessCall("constructor", Admin, 0, "ok")
    /\ payrollManagers = {Owner}
    /\ pendingWithholdings = [a \in {TaxAuthority} |-> Unset]
    /\ balances = minted.balances
    /\ totalSupply = minted.totalSupply
    /\ tokenCall = TokenCall("constructor", Owner, "ok")
    /\ roles = {<<DEFAULT_ADMIN_ROLE, Owner>>, <<EMPLOYER_ROLE, Owner>>,
                <<PAYROLL_ADMIN_ROLE, Owner>>}
    /\ employees = [a \in EmployeeAddrs |-> NoEmployee]
    /\ paymentHistory = [a \in EmployeeAddrs |-> [p \in Periods |-> Unset]]
    /\ config = [payPeriodDays |-> payPeriodDays,
                 paymentToken |-> PaymentToken,
                 treasuryAddress |-> Owner,
                 encryptedTotalBudget |-> asEuint64(Zero64)]
    /\ currentPayPeriod = 0
    /\ totalEmployees = 0
    /\ now = 0
    /\ lastCall = Call("constructor", Owner, ZeroAddress, "ok")

\* ----------------------------------------------------- AccessControl
grantRole(caller, role, account) ==
    /\ UNCHANGED <<now, tokenVars, appVars>>
    /\ IF ~onlyRole(DEFAULT_ADMIN_ROLE, caller)
       THEN Revert("grantRole", caller, account, "AccessControl")
       ELSE /\ roles' = roles \cup {<<role, account>>}
            /\ lastCall' = Call("grantRole", caller, account, "ok")
            /\ UNCHANGED <<employees, paymentHistory, config, currentPayPeriod,
                           totalEmployees>>

\* --------------------------------------------------------- employees
\* mutant: the salary is granted to the contract only
grantSalary_contractOnly(salary, employee) == allowThis(salary)

\* FHE.allowThis(salary) and FHE.allow(salary, employee)
grantSalary(salary, employee) == allow(allowThis(salary), employee)

\* mutant: the record keeps the tax rate input as the salary
newEmployeeData_taxRateAsSalary(employee, salary, taxRate) ==
    [encryptedSalary |-> grantSalary(taxRate, employee),
     encryptedBonus |-> asEuint64(Zero64),
     encryptedTaxRate |-> allowThis(taxRate),
     encryptedYTDEarnings |-> asEuint64(Zero64),
     encryptedYTDTax |-> asEuint64(Zero64),
     lastPaymentTimestamp |-> now,
     isActive |-> TRUE]

\* the record addEmployee stores, with the grants it goes on to issue
newEmployeeData(employee, salary, taxRate) ==
    [encryptedSalary |-> grantSalary(salary, employee),
     encryptedBonus |-> asEuint64(Zero64),
     encryptedTaxRate |-> allowThis(taxRate),
     encryptedYTDEarnings |-> asEuint64(Zero64),
     encryptedYTDTax |-> asEuint64(Zero64),
     lastPaymentTimestamp |-> now,
     isActive |-> TRUE]

\* mutant: addEmployee without the "Employee already exists" requirement
addEmployee_noDuplicateCheck(caller, employee, salaryPlain, taxRatePlain) ==
    /\ UNCHANGED <<now, tokenVars, appVars>>
    /\ IF ~onlyRole(PAYROLL_ADMIN_ROLE, caller)
       THEN Revert("addEmployee", caller, employee, "AccessControl")
       ELSE LET salary == fromExternal(salaryPlain)
                taxRate == fromExternal(taxRatePlain)
            IN /\ employees' = [employees EXCEPT ![employee] =
                                    newEmployeeData(employee, salary, taxRate)]
               /\ config' = [config EXCEPT !.encryptedTotalBudget =
                                 FHEadd(@, salary)]
               /\ totalEmployees' = totalEmployees + 1
               /\ lastCall' = [Call("addEmployee", caller, employee, "ok") EXCEPT
                                 !.input = salaryPlain,
                                 !.wrapped = AddWraps(config.encryptedTotalBudget.val,
                                                      salaryPlain)]
               /\ UNCHANGED <<roles, paymentHistory, currentPayPeriod>>

addEmployee(caller, employee, salaryPlain, taxRatePlain) ==
    /\ UNCHANGED <<now, tokenVars, appVars>>
    /\ IF ~onlyRole(PAYROLL_ADMIN_ROLE, caller)
       THEN Revert("addEmployee", caller, employee, "AccessControl")
       ELSE IF employees[employee].isActive
       THEN Revert("addEmployee", caller, employee, "Employee already exists")
       ELSE LET salary == fromExternal(salaryPlain)
                taxRate == fromExternal(taxRatePlain)
            IN /\ employees' = [employees EXCEPT ![employee] =
                                    newEmployeeData(employee, salary, taxRate)]
               /\ config' = [config EXCEPT !.encryptedTotalBudget =
                                 FHEadd(@, salary)]
               /\ totalEmployees' = totalEmployees + 1
               /\ lastCall' = [Call("addEmployee", caller, employee, "ok") EXCEPT
                                 !.input = salaryPlain,
                                 !.wrapped = AddWraps(config.encryptedTotalBudget.val,
                                                      salaryPlain)]
               /\ UNCHANGED <<roles, paymentHistory, currentPayPeriod>>

\* mutant: the old salary is not taken off the budget
updateSalary_noDebit(caller, employee, newSalaryPlain) ==
    /\ UNCHANGED <<now, tokenVars, appVars>>
    /\ IF ~onlyRole(PAYROLL_ADMIN_ROLE, caller)
       THEN Revert("updateSalary", caller, employee, "AccessControl")
       ELSE IF ~employees[employee].isActive
       THEN Revert("updateSalary", caller, employee, "Employee not found")
       ELSE LET oldSalary == employees[employee].encryptedSalary
                newSalary == fromExternal(newSalaryPlain)
                lowered == config.encryptedTotalBudget
            IN /\ config' = [config EXCEPT !.encryptedTotalBudget =
                                 FHEadd(lowered, newSalary)]
               /\ employees' = [employees EXCEPT ![employee].encryptedSalary =
                                    grantSalary(newSalary, employee)]
               /\ lastCall' = [Call("updateSalary", caller, employee, "ok") EXCEPT
                                 !.input = newSalaryPlain,
                                 !.wrapped =
                                     \/ SubWraps(config.encryptedTotalBudget.val,
                                                 oldSalary.val)
                                     \/ AddWraps(lowered.val, newSalaryPlain)]
               /\ UNCHANGED <<roles, paymentHistory, currentPayPeriod,
                              totalEmployees>>

updateSalary(caller, employee, newSalaryPlain) ==
    /\ UNCHANGED <<now, tokenVars, appVars>>
    /\ IF ~onlyRole(PAYROLL_ADMIN_ROLE, caller)
       THEN Revert("updateSalary", caller, employee, "AccessControl")
       ELSE IF ~employees[employee].isActive
       THEN Revert("updateSalary", caller, employee, "Employee not found")
       ELSE LET oldSalary == employees[employee].encryptedSalary
                newSalary == fromExternal(newSalaryPlain)
                lowered == FHEsub(config.encryptedTotalBudget, oldSalary)
            IN /\ config' = [config EXCEPT !.encryptedTotalBudget =
                                 FHEadd(lowered, newSalary)]
               /\ employees' = [employees EXCEPT ![employee].encryptedSalary =
                                    grantSalary(newSalary, employee)]
               /\ lastCall' = [Call("updateSalary", caller, employee, "ok") EXCEPT
                                 !.input = newSalaryPlain,
                                 !.wrapped =
                                     \/ SubWraps(config.encryptedTotalBudget.val,
                                                 oldSalary.val)
                                     \/ AddWraps(lowered.val, newSalaryPlain)]
               /\ UNCHANGED <<roles, paymentHistory, currentPayPeriod,
                              totalEmployees>>

distributeBonus(caller, employee, bonusPlain) ==
    /\ UNCHANGED <<now, tokenVars, appVars>>
    /\ IF ~onlyRole(EMPLOYER_ROLE, caller)
       THEN Revert("distributeBonus", caller, employee, "AccessControl")
       ELSE IF ~employees[employee].isActive
       THEN Revert("distributeBonus", caller, employee, "Employee not found")
       ELSE LET bonus == fromExternal(bonusPlain)
                old == employees[employee].encryptedBonus
            IN /\ employees' = [employees EXCEPT ![employee].encryptedBonus =
                                    allowThis(FHEadd(old, bonus))]
               /\ lastCall' = [Call("distributeBonus", caller, employee, "ok") EXCEPT
                                 !.input = bonusPlain,
                                 !.wrapped = AddWraps(old.val, bonusPlain)]
               /\ UNCHANGED <<roles, paymentHistory, config, currentPayPeriod,
                              totalEmployees>>

\* ----------------------------------------------------------- payroll
\* the employee iteration helper: a placeholder that ignores its index
getEmployeeByIndex(index) == ZeroAddress

\* _transferConfidentialPayment: only lets the payment token use the amount
transferConfidentialPayment(to, encryptedAmount) ==
    allow(encryptedAmount, config.paymentToken)

\* one pass of the processPayroll loop body for address employeeAddr;
\* st = [emps, hist, count, wrapped] is the storage the loop works on
payEmployee(st, employeeAddr, period) ==
    LET employee == st.emps[employeeAddr]
        periodSalary == employee.encryptedSalary
        grossPay == FHEadd(periodSalary, employee.encryptedBonus)
        taxAmount == FHEmul(grossPay, employee.encryptedTaxRate)
        netPay == FHEsub(grossPay, taxAmount)
        ytdEarnings == FHEadd(employee.encryptedYTDEarnings, grossPay)
        ytdTax == FHEadd(employee.encryptedYTDTax, taxAmount)
    IN IF ~employee.isActive THEN st
       ELSE [emps |-> [st.emps EXCEPT ![employeeAddr] =
                          [@ EXCEPT !.encryptedYTDEarnings = ytdEarnings,
                                    !.encryptedYTDTax = ytdTax,
                                    !.encryptedBonus = asEuint64(Zero64),
                                    !.lastPaymentTimestamp = now]],
             hist |-> [st.hist EXCEPT ![employeeAddr][period] =
                          transferConfidentialPayment(employeeAddr, netPay)],
             count |-> st.count + 1,
             wrapped |-> \/ st.wrapped
                         \/ AddWraps(periodSalary.val, employee.encryptedBonus.val)
                         \/ MulWraps(grossPay.val, employee.encryptedTaxRate.val)
                         \/ SubWraps(grossPay.val, taxAmount.val)
                         \/ AddWraps(employee.encryptedYTDEarnings.val, grossPay.val)
                         \/ AddWraps(employee.encryptedYTDTax.val, taxAmount.val)]

RECURSIVE payrollLoop(_, _, _, _)
payrollLoop(st, i, n, period) ==
    IF i >= n THEN st
    ELSE payrollLoop(payEmployee(st, getEmployeeByIndex(i), period), i + 1, n, period)

processPayroll(caller) ==
    /\ UNCHANGED <<now, tokenVars, appVars>>
    /\ IF ~onlyRole(PAYROLL_ADMIN_ROLE, caller)
       THEN Revert("processPayroll", caller, ZeroAddress, "AccessControl")
       ELSE LET period == currentPayPeriod + 1
                done == payrollLoop([emps |-> employees, hist |-> paymentHistory,
                                     count |-> 0, wrapped |-> FALSE],
                                    0, totalEmployees, period)
            IN /\ currentPayPeriod' = period
               /\ employees' = done.emps
               /\ paymentHistory' = done.hist
               /\ lastCall' = [Call("processPayroll", caller, ZeroAddress, "ok") EXCEPT
                                 !.count = done.count,
                                 !.wrapped = done.wrapped]
               /\ UNCHANGED <<roles, config, totalEmployees>>

\* -------------------------------------------------------- compliance
\* one pass of the aggregation loop; acc = [totalPaid, totalTax, wrapped]
addToReport(acc, employeeAddr) ==
    LET employee == employees[employeeAddr]
    IN IF employee.isActive
       THEN [totalPaid |-> FHEadd(acc.totalPaid, employee.encryptedYTDEarnings),
             totalTax |-> FHEadd(acc.totalTax, employee.encryptedYTDTax),
             wrapped |-> \/ acc.wrapped
                         \/ AddWraps(acc.totalPaid.val,
                                     employee.encryptedYTDEarnings.val)
                         \/ AddWraps(acc.totalTax.val, employee.encryptedYTDTax.val)]
       ELSE acc

RECURSIVE reportLoop(_, _, _)
reportLoop(acc, i, n) ==
    IF i >= n THEN acc
    ELSE reportLoop(addToReport(acc, getEmployeeByIndex(i)), i + 1, n)

\* mutant: the report also grants its caller each active employee's YTD figures
generateComplianceReport_grantsRecords(caller) ==
    /\ UNCHANGED <<now, tokenVars, appVars>>
    /\ IF ~onlyRole(AUDITOR_ROLE, caller)
       THEN Revert("generateComplianceReport", caller, ZeroAddress, "AccessControl")
       ELSE LET sums == reportLoop([totalPaid |-> asEuint64(Zero64),
                                    totalTax |-> asEuint64(Zero64),
                                    wrapped |-> FALSE], 0, totalEmployees)
            IN /\ lastCall' = [Call("generateComplianceReport", caller, ZeroAddress,
                                     "ok") EXCEPT
                                 !.totalPaid = allow(sums.totalPaid, caller),
                                 !.totalTax = allow(sums.totalTax, caller),
                                 !.returned = <<currentPayPeriod, totalEmployees, now>>,
                                 !.wrapped = sums.wrapped]
               /\ employees' = [e \in EmployeeAddrs |->
                      IF employees[e].isActive
                      THEN [employees[e] EXCEPT
                              !.encryptedYTDEarnings = allow(@, caller),
                              !.encryptedYTDTax = allow(@, caller)]
                      ELSE employees[e]]
               /\ UNCHANGED <<roles, paymentHistory, config, currentPayPeriod,
                              totalEmployees>>

generateComplianceReport(caller) ==
    /\ UNCHANGED <<now, tokenVars, appVars>>
    /\ IF ~onlyRole(AUDITOR_ROLE, caller)
       THEN Revert("generateComplianceReport", caller, ZeroAddress, "AccessControl")
       ELSE LET sums == reportLoop([totalPaid |-> asEuint64(Zero64),
                                    totalTax |-> asEuint64(Zero64),
                                    wrapped |-> FALSE], 0, totalEmployees)
            IN /\ lastCall' = [Call("generateComplianceReport", caller, ZeroAddress,
                                     "ok") EXCEPT
                                 !.totalPaid = allow(sums.totalPaid, caller),
                                 !.totalTax = allow(sums.totalTax, caller),
                                 !.returned = <<currentPayPeriod, totalEmployees, now>>,
                                 !.wrapped = sums.wrapped]
               /\ UNCHANGED storage

\* removeEmployee is called by the test suite and the front end, but the
\* contract defines no function of that name and no fallback: the call
\* reverts whoever makes it
removeEmployee(caller, employee) ==
    /\ UNCHANGED <<now, tokenVars, appVars>>
    /\ Revert("removeEmployee", caller, employee, "no such function")

\* --------------------------------------------------------------- views
isEmployee(account) == employees[account].isActive

\* ------------------------------------------------------- PayrollToken
\* the token storage the pure steps below work on
tokenState ==
    [payrollManagers |-> payrollManagers,
     pendingWithholdings |-> pendingWithholdings,
     balances |-> balances, totalSupply |-> totalSupply]

\* a reverted token transaction
TokenRevert(op, caller, reason) ==
    /\ tokenCall' = TokenCall(op, caller, reason)
    /\ UNCHANGED tokenStorage

\* a token transaction that went through and left the storage tk
TokenCommit(call, tk) ==
    /\ tokenCall' = call
    /\ payrollManagers' = tk.payrollManagers
    /\ pendingWithholdings' = tk.pendingWithholdings
    /\ balances' = tk.balances
    /\ totalSupply' = tk.totalSupply

onlyOwner(caller) == caller = Owner
onlyPayrollManager(tk, caller) == caller \in tk.payrollManagers

addPayrollManager(caller, manager) ==
    /\ UNCHANGED <<storage, now, lastCall, appVars>>
    /\ IF ~onlyOwner(caller)
       THEN TokenRevert("addPayrollManager", caller, "Ownable")
       ELSE TokenCommit([TokenCall("addPayrollManager", caller, "ok") EXCEPT
                           !.target = manager],
                        [tokenState EXCEPT !.payrollManagers = @ \cup {manager}])

\* mutant: the mapping entry is not cleared
removePayrollManager_keeps(caller, manager) ==
    /\ UNCHANGED <<storage, now, lastCall, appVars>>
    /\ IF ~onlyOwner(caller)
       THEN TokenRevert("removePayrollManager", caller, "Ownable")
       ELSE TokenCommit([TokenCall("removePayrollManager", caller, "ok") EXCEPT
                           !.target = manager],
                        tokenState)

removePayrollManager(caller, manager) ==
    /\ UNCHANGED <<storage, now, lastCall, appVars>>
    /\ IF ~onlyOwner(caller)
       THEN TokenRevert("removePayrollManager", caller, "Ownable")
       ELSE TokenCommit([TokenCall("removePayrollManager", caller, "ok") EXCEPT
                           !.target = manager],
                        [tokenState EXCEPT !.payrollManagers = @ \ {manager}])

\* the body of processPayrollPayment for one item = [employee, grossPay,
\* taxAmount, grossAllowed, taxAllowed], the flags telling whether the
\* sender holds a grant on the two ciphertexts; yields the status, the
\* storage after it and the amount moved
payment(tk, sender, item) ==
    LET netPay == Sub64(item.grossPay, item.taxAmount)
        canTransfer == Le64(item.grossPay, tk.balances[sender].val)
        actualTransfer == IF canTransfer THEN netPay ELSE Zero64
        u == update(tk, sender, item.employee, actualTransfer)
        pending == tk.pendingWithholdings[TaxAuthority]
    IN IF ~onlyPayrollManager(tk, sender)
       THEN [status |-> "Not a payroll manager", tk |-> tk, moved |-> Zero64]
       ELSE IF ~item.grossAllowed
       THEN [status |-> "Gross pay not allowed", tk |-> tk, moved |-> Zero64]
       ELSE IF ~item.taxAllowed
       THEN [status |-> "Tax amount not allowed", tk |-> tk, moved |-> Zero64]
       ELSE IF ~u.ok
       THEN [status |-> "ZeroBalance", tk |-> tk, moved |-> Zero64]
       ELSE [status |-> "ok",
             tk |-> [tk EXCEPT
                       !.balances = [u.balances EXCEPT
                                       ![item.employee] = allow(@, item.employee)],
                       !.totalSupply = u.totalSupply,
                       !.pendingWithholdings[TaxAuthority] =
                           Fresh(Add64(pending.val, item.taxAmount))],
             moved |-> u.transferred]

processPayrollPayment(caller, item) ==
    /\ UNCHANGED <<storage, now, lastCall, appVars>>
    /\ LET r == payment(tokenState, caller, item)
       IN IF r.status # "ok"
          THEN TokenRevert("processPayrollPayment", caller, r.status)
          ELSE TokenCommit([TokenCall("processPayrollPayment", caller, "ok") EXCEPT
                              !.items = <<item>>, !.moved = <<r.moved>>],
                           r.tk)

\* mutant: a failing item is skipped and the loop carries on
RECURSIVE batchLoop_skipFailed(_, _, _, _)
batchLoop_skipFailed(r, sender, items, i) ==
    IF i > Len(items) THEN r
    ELSE LET one == payment(r.tk, sender, items[i])
         IN batchLoop_skipFailed(
                [status |-> "ok",
                 tk |-> IF one.status = "ok" THEN one.tk ELSE r.tk,
                 moved |-> IF one.status = "ok"
                           THEN Append(r.moved, one.moved) ELSE r.moved],
                sender, items, i + 1)

\* the loop of batchProcessPayroll from item i on; r = [status, tk, moved]
\* with moved the amounts moved so far.  A failing item reverts the call.
RECURSIVE batchLoop(_, _, _, _)
batchLoop(r, sender, items, i) ==
    IF i > Len(items) \/ r.status # "ok" THEN r
    ELSE LET one == payment(r.tk, sender, items[i])
         IN batchLoop([status |-> one.status, tk |-> one.tk,
                       moved |-> IF one.status = "ok"
                                 THEN Append(r.moved, one.moved) ELSE r.moved],
                      sender, items, i + 1)

\* employees, grossPayments and taxAmounts are the three calldata arrays;
\* a payment array holds [val, allowed] per ciphertext
batchProcessPayroll(caller, employeeList, grossPayments, taxAmounts) ==
    /\ UNCHANGED <<storage, now, lastCall, appVars>>
    /\ LET lengths == {Len(employeeList), Len(grossPayments), Len(taxAmounts)}
           items == [i \in 1..Len(employeeList) |->
                       [employee |-> employeeList[i],
                        grossPay |-> grossPayments[i].val,
                        taxAmount |-> taxAmounts[i].val,
                        grossAllowed |-> grossPayments[i].allowed,
                        taxAllowed |-> taxAmounts[i].allowed]]
           call(status) == [TokenCall("batchProcessPayroll", caller, status) EXCEPT
                              !.mismatch = Cardinality(lengths) > 1]
       IN IF ~onlyPayrollManager(tokenState, caller)
          THEN /\ tokenCall' = call("Not a payroll manager")
               /\ UNCHANGED tokenStorage
          ELSE IF ~(Len(employeeList) = Len(grossPayments)
                    /\ Len(employeeList) = Len(taxAmounts))
          THEN /\ tokenCall' = call("Array length mismatch")
               /\ UNCHANGED tokenStorage
          ELSE LET r == batchLoop([status |-> "ok", tk |-> tokenState,
                                   moved |-> <<>>], caller, items, 1)
               IN IF r.status # "ok"
                  THEN /\ tokenCall' = [call(r.status) EXCEPT !.items = items]
                       /\ UNCHANGED tokenStorage
                  ELSE TokenCommit([call("ok") EXCEPT !.items = items,
                                                      !.moved = r.moved],
                                   r.tk)

remitTaxWithholdings(caller) ==
    /\ UNCHANGED <<storage, now, lastCall, appVars>>
    /\ LET totalTax == pendingWithholdings[TaxAuthority]
           hasTax == Lt64(Zero64, totalTax.val)
           remittance == IF hasTax THEN totalTax.val ELSE Zero64
           u == update(tokenState, caller, TaxAuthority, remittance)
       IN IF ~onlyPayrollManager(tokenState, caller)
          THEN TokenRevert("remitTaxWithholdings", caller, "Not a payroll manager")
          ELSE IF ~u.ok
          THEN TokenRevert("remitTaxWithholdings", caller, "ZeroBalance")
          ELSE TokenCommit(
                   [TokenCall("remitTaxWithholdings", caller, "ok") EXCEPT
                      !.moved = <<u.transferred>>],
                   [tokenState EXCEPT
                      !.balances = [u.balances EXCEPT
                                      ![TaxAuthority] = allow(@, TaxAuthority)],
                      !.totalSupply = u.totalSupply,
                      !.pendingWithholdings[TaxAuthority] = asEuint64(Zero64)])

\* the holder funds another account
transfer(caller, to, amount) ==
    /\ UNCHANGED <<storage, now, lastCall, appVars>>
    /\ LET u == update(tokenState, caller, to, amount)
       IN IF to = ZeroAddress
          THEN TokenRevert("transfer", caller, "InvalidReceiver")
          ELSE IF ~u.ok
          THEN TokenRevert("transfer", caller, "ZeroBalance")
          ELSE TokenCommit([TokenCall("transfer", caller, "ok") EXCEPT
                              !.target = to, !.moved = <<u.transferred>>],
                           [tokenState EXCEPT !.balances = u.balances,
                                              !.totalSupply = u.totalSupply])

\* the items a payment may be called with
Items(employeeSet, grossSet, taxSet, grossFlags, taxFlags) ==
    [employee : employeeSet, grossPay : grossSet, taxAmount : taxSet,
     grossAllowed : grossFlags, taxAllowed : taxFlags]

\* one token transaction; withholdings accumulate up to PendingCap and an
\* account is funded once
TokenStep(callers, managers, funded, items) ==
    \/ \E c \in callers, m \in managers : addPayrollManager(c, m)
    \/ \E c \in callers, m \in managers : removePayrollManager(c, m)
    \/ \E c \in callers, i \in items :
           /\ Lt64(pendingWithholdings[TaxAuthority].val, PendingCap)
           /\ processPayrollPayment(c, i)
    \/ \E c \in callers : remitTaxWithholdings(c)
    \/ \E c \in callers, f \in funded :
           ~balances[f[1]].init /\ transfer(c, f[1], f[2])

\* ------------------------------------------------------ access control
\* a registry call that reverted
AccessRevert(op, caller, employeeId, reason) ==
    /\ accessCall' = AccessCall(op, caller, employeeId, reason)
    /\ UNCHANGED <<employers, auditorAccess, employeeRecords>>

isAdmin(account) == account = Admin
isEmployer(account) == account \in employers
hasAuditorAccess(account, employer) == <<account, employer>> \in auditorAccess

registerEmployer(caller, employer) ==
    /\ UNCHANGED <<chainVars, display, walletVars, auth, guardView,
                    location>>
    /\ IF ~isAdmin(caller)
       THEN AccessRevert("registerEmployer", caller, 0, "Not an admin")
       ELSE /\ employers' = employers \cup {employer}
            /\ accessCall' = AccessCall("registerEmployer", caller, 0, "ok")
            /\ UNCHANGED <<auditorAccess, employeeRecords>>

deactivateEmployer(caller, employer) ==
    /\ UNCHANGED <<chainVars, display, walletVars, auth, guardView,
                    location>>
    /\ IF ~isAdmin(caller)
       THEN AccessRevert("deactivateEmployer", caller, 0, "Not an admin")
       ELSE /\ employers' = employers \ {employer}
            /\ accessCall' = AccessCall("deactivateEmployer", caller, 0, "ok")
            /\ UNCHANGED <<auditorAccess, employeeRecords>>

grantAuditorAccess(caller, auditor, employer) ==
    /\ UNCHANGED <<chainVars, display, walletVars, auth, guardView,
                    location>>
    /\ IF ~isAdmin(caller)
       THEN AccessRevert("grantAuditorAccess", caller, 0, "Not an admin")
       ELSE /\ auditorAccess' = auditorAccess \cup {<<auditor, employer>>}
            /\ accessCall' = AccessCall("grantAuditorAccess", caller, 0, "ok")
            /\ UNCHANGED <<employers, employeeRecords>>

revokeAuditorAccess(caller, auditor, employer) ==
    /\ UNCHANGED <<chainVars, display, walletVars, auth, guardView,
                    location>>
    /\ IF ~isAdmin(caller)
       THEN AccessRevert("revokeAuditorAccess", caller, 0, "Not an admin")
       ELSE /\ auditorAccess' = auditorAccess \ {<<auditor, employer>>}
            /\ accessCall' = AccessCall("revokeAuditorAccess", caller, 0, "ok")
            /\ UNCHANGED <<employers, employeeRecords>>

\* the ids in use, handed out in order
usedIds == {i \in EmployeeIds : employeeRecords[i] # NoRecord}

\* PayrollSystem.addEmployee: a registered employer registers an employee
\* under the next free id
registerEmployee(caller, employee) ==
    /\ UNCHANGED <<chainVars, display, walletVars, auth, guardView,
                    location>>
    /\ usedIds # EmployeeIds
    /\ IF ~isEmployer(caller)
       THEN AccessRevert("addEmployee", caller, 0, "Not an authorized employer")
       ELSE LET id == Cardinality(usedIds) + 1
            IN /\ employeeRecords' =
                      [employeeRecords EXCEPT
                          ![id] = [employee |-> employee, employer |-> caller]]
               /\ accessCall' = AccessCall("addEmployee", caller, id, "ok")
               /\ UNCHANGED <<employers, auditorAccess>>

\* a different registered employer passes as the record's employer
canAccessEmployeeData_anyEmployer(caller, employeeId, employer) ==
    LET rec == employeeRecords[employeeId]
    IN /\ rec # NoRecord
       /\ rec.employer = employer
       /\ \/ caller = rec.employee
          \/ isEmployer(caller)
          \/ isAdmin(caller)
          \/ hasAuditorAccess(caller, employer)

\* the caller is the employee, the employer the record belongs to, an admin
\* or an auditor holding a grant for that employer
canAccessEmployeeData(caller, employeeId, employer) ==
    LET rec == employeeRecords[employeeId]
    IN /\ rec # NoRecord
       /\ rec.employer = employer
       /\ \/ caller = rec.employee
          \/ caller = employer
          \/ isAdmin(caller)
          \/ hasAuditorAccess(caller, employer)

\* PayrollSystem.getEmployee: the record is read under its employer
getEmployee(caller, employeeId) ==
    /\ UNCHANGED <<chainVars, display, walletVars, auth, guardView,
                    location>>
    /\ IF canAccessEmployeeData(caller, employeeId,
                                employeeRecords[employeeId].employer)
       THEN /\ accessCall' = AccessCall("getEmployee", caller, employeeId, "ok")
            /\ UNCHANGED <<employers, auditorAccess, employeeRecords>>
       ELSE AccessRevert("getEmployee", caller, employeeId,
                         "Not authorized to access employee data")

\* one call to the registry in the deployment of the contract test suite:
\* the admin, two employers, an employee, an auditor and an outsider call
NextAccess ==
    \/ \E c \in AccessCallers, e \in RegisteredEmployers :
           registerEmployer(c, e)
    \/ \E c \in AccessCallers, e \in RegisteredEmployers :
           deactivateEmployer(c, e)
    \/ \E c \in AccessCallers, e \in RegisteredEmployers :
           grantAuditorAccess(c, Auditor1, e)
    \/ \E c \in AccessCallers, e \in RegisteredEmployers :
           revokeAuditorAccess(c, Auditor1, e)
    \/ \E c \in AccessCallers : registerEmployee(c, Employee1)
    \/ \E c \in AccessCallers, i \in EmployeeIds : getEmployee(c, i)

\* ------------------------------------------------- EncryptedDataDisplay
\* !decryptedValue: null and 0 are both falsy
falsy(value) == value = null \/ value = <<0>>

\* handleDecrypt up to its await: the request is in flight while
\* isDecrypting is set
handleDecrypt(d) ==
    IF ~d.canDecrypt \/ d.isDecrypting
    THEN d
    ELSE [d EXCEPT !.isDecrypting = TRUE, !.error = null,
                   !.requests = @ + 1]

\* the effect on [isVisible, canDecrypt], run after a render that changed
\* one of them
decryptEffect(old, d) ==
    IF /\ (d.isVisible # old.isVisible \/ d.canDecrypt # old.canDecrypt)
       /\ d.isVisible /\ d.canDecrypt
       /\ falsy(d.decryptedValue) /\ ~d.isDecrypting
    THEN handleDecrypt(d)
    ELSE d

\* an event of the component: its handler's state updates, then the effect
Render(event, d) ==
    /\ display' = [decryptEffect(display, d) EXCEPT !.event = event]
    /\ UNCHANGED <<chainVars, accessVars, walletVars, auth, guardView,
                   location>>

\* the show / hide button, rendered while the value can be decrypted
toggleVisibility ==
    /\ display.canDecrypt
    /\ Render("toggleVisibility", [display EXCEPT !.isVisible = ~@])

\* the await of handleDecrypt resolves with the decrypted value
decryptResolved(v) ==
    /\ display.isDecrypting
    /\ Render("decryptResolved",
              [display EXCEPT !.decryptedValue = <<v>>,
                              !.isDecrypting = FALSE])

\* the await of handleDecrypt rejects
decryptRejected(message) ==
    /\ display.isDecrypting
    /\ Render("decryptRejected",
              [display EXCEPT !.error = <<message>>,
                              !.isVisible = FALSE,
                              !.isDecrypting = FALSE])

\* the refresh button next to a shown value, or the retry button of the
\* "Decryption failed" view: both reset the value and the error and ask
\* again while the value is shown
refreshDecryption ==
    /\ \/ display.isVisible /\ display.decryptedValue # null
       \/ /\ display.canDecrypt /\ display.isVisible
          /\ ~display.isDecrypting /\ display.error # null
    /\ LET cleared == [display EXCEPT !.decryptedValue = null,
                                      !.error = null]
       IN Render("refreshDecryption",
                 IF cleared.isVisible /\ cleared.canDecrypt
                 THEN handleDecrypt(cleared)
                 ELSE cleared)

\* the wallet connects or disconnects: canDecrypt follows walletState.address
walletAddressChanged ==
    Render("walletAddressChanged", [display EXCEPT !.canDecrypt = ~@])

\* what getDisplayValue renders: <<v>> when the decrypted value v is on
\* screen, null otherwise
getDisplayValue(d) ==
    IF d.canDecrypt /\ d.isVisible /\ ~d.isDecrypting /\ d.error = null
    THEN d.decryptedValue
    ELSE null

\* one event of one EncryptedDataDisplay; the user and the wallet act until
\* MaxDecryptRequests requests were sent.  A request is answered with a
\* value, or rejected with the hook's error while it holds no initialized
\* manager, or with the manager's
NextDisplay ==
    \/ display.requests < MaxDecryptRequests /\ toggleVisibility
    \/ \E v \in {0, 7} : decryptResolved(v)
    \/ \E m \in {"Encryption not initialized", "Failed to decrypt value"} :
           decryptRejected(m)
    \/ display.requests < MaxDecryptRequests /\ refreshDecryption
    \/ display.requests < MaxDecryptRequests /\ walletAddressChanged

\* ------------------------------------------------- useWallet, useRole
UserRoles == <<"employee", "employer", "admin", "auditor">>
EMPLOYEE == UserRoles[1]
EMPLOYER == UserRoles[2]
ADMIN == UserRoles[3]
AUDITOR == UserRoles[4]

\* the accounts of the wallet and the role number the contract returns for
\* each; the chains the wallet may be on
Accounts == {"0xA", "0xB"}
roleNumberOf == [a \in Accounts |-> IF a = "0xA" THEN 2 ELSE 3]
Chains == {ZAMA_DEVNET, 1}

\* getUserRole: roles[Number(roleNumber)] || UserRole.EMPLOYEE, and null
\* when the contract is not set or the call fails
getUserRole(userAddress, callSucceeds) ==
    IF ~callSucceeds THEN null
    ELSE IF roleNumberOf[userAddress] + 1 \in DOMAIN UserRoles
         THEN <<UserRoles[roleNumberOf[userAddress] + 1]>>
         ELSE <<EMPLOYEE>>

\* fetchUserRole up to its await
fetchUserRole(a, userAddress) ==
    [a EXCEPT !.isLoading = TRUE, !.fetches = @ \cup {userAddress}]

\* the effect of useRole on [userAddress]
roleEffect(oldAddress, newAddress, a) ==
    IF newAddress = oldAddress THEN a
    ELSE IF newAddress # null THEN fetchUserRole(a, newAddress[1])
         ELSE [a EXCEPT !.user = null]

\* whether the wallet is on one of SUPPORTED_CHAINS
isChainSupported(ws) ==
    IF ws.chainId # null THEN ws.chainId[1] \in {ZAMA_DEVNET, 9000, 31337}
    ELSE FALSE

getAccessibleRoutes(user) ==
    IF user = null THEN <<>>
    ELSE <<"/dashboard">> \o
         CASE user[1].role = EMPLOYEE -> <<"/dashboard/employee">>
           [] user[1].role = EMPLOYER ->
                 <<"/dashboard/employer", "/dashboard/employee">>
           [] user[1].role = ADMIN ->
                 <<"/dashboard/admin", "/dashboard/employer",
                   "/dashboard/employee">>
           [] user[1].role = AUDITOR -> <<"/dashboard/auditor">>
           [] OTHER -> <<>>

getDefaultRoute(user) ==
    IF user = null THEN "/login"
    ELSE CASE user[1].role = EMPLOYEE -> "/dashboard/employee"
           [] user[1].role = EMPLOYER -> "/dashboard/employer"
           [] user[1].role = ADMIN -> "/dashboard/admin"
           [] user[1].role = AUDITOR -> "/dashboard/auditor"
           [] OTHER -> "/dashboard"

\* the paths of the dashboard's navigation options
getDashboardOptions(user) ==
    IF user = null THEN <<>>
    ELSE CASE user[1].role = ADMIN ->
                 <<"/dashboard/admin", "/dashboard/employer",
                   "/dashboard/employee">>
           [] user[1].role = EMPLOYER ->
                 <<"/dashboard/employer", "/dashboard/employee">>
           [] user[1].role = AUDITOR -> <<"/dashboard/auditor">>
           [] OTHER -> <<"/dashboard/employee">>

\* the redirects of LoginPage and DashboardPage
routeEffect(path, ws, user) ==
    IF path = "/login" /\ ws.isConnected /\ user # null /\ isChainSupported(ws)
    THEN getDefaultRoute(user)
    ELSE IF path = "/dashboard" /\ user # null THEN getDefaultRoute(user)
    ELSE path

\* useWallet's state updates of one event and a navigation to path, the
\* render and the effects
WalletCommitAt(path, event, ws, p, s) ==
    /\ walletState' = ws
    /\ provider' = p
    /\ signer' = s
    /\ walletEvent' = event
    /\ auth' = roleEffect(walletState.address, ws.address, auth)
    /\ location' = routeEffect(path, ws, auth'.user)

WalletCommit(event, ws, p, s) == WalletCommitAt(location, event, ws, p, s)

\* the await of fetchUserRole returns: the user is set for the address the
\* fetch was started with
roleFetched(userAddress, callSucceeds) ==
    /\ userAddress \in auth.fetches
    /\ LET role == getUserRole(userAddress, callSucceeds)
       IN auth' = [auth EXCEPT
                      !.user = <<[address |-> userAddress,
                                  role |-> IF role # null THEN role[1]
                                           ELSE EMPLOYEE]>>,
                      !.isLoading = FALSE,
                      !.fetches = @ \ {userAddress}]
    /\ location' = routeEffect(location, walletState, auth'.user)
    /\ UNCHANGED <<chainVars, accessVars, display, walletVars, guardView>>

\* everything useWallet's events leave alone
walletFrame == <<chainVars, accessVars, display, guardView>>

disconnect(event) ==
    WalletCommit(event, disconnectedState, null, null)

\* the wallet exposes other accounts and emits accountsChanged
handleAccountsChanged(accounts) ==
    /\ accounts # ethereum.accounts
    /\ ethereum' = [ethereum EXCEPT !.accounts = accounts]
    /\ IF accounts = null
       THEN disconnect("accountsChanged")
       ELSE WalletCommit("accountsChanged",
                         [walletState EXCEPT !.address = accounts,
                                             !.isConnected = TRUE],
                         provider, signer)
    /\ UNCHANGED <<walletFrame, checkConnectionOp, connectOp>>

\* the wallet moves to another chain and emits chainChanged
handleChainChanged(chainId) ==
    /\ chainId # ethereum.chainId
    /\ ethereum' = [ethereum EXCEPT !.chainId = chainId]
    /\ WalletCommit("chainChanged",
                    [walletState EXCEPT !.chainId = <<chainId>>],
                    provider, signer)
    /\ UNCHANGED <<walletFrame, checkConnectionOp, connectOp>>

\* the state checkConnection and connect set on success
connectedState(address, chainId) ==
    [isConnected |-> TRUE, address |-> address, chainId |-> chainId,
     isConnecting |-> FALSE, error |-> null]

\* checkConnection, one await at a time
checkConnection ==
    /\ UNCHANGED <<walletFrame, ethereum, connectOp>>
    /\ \/ /\ checkConnectionOp.pc = "listAccounts"
          /\ checkConnectionOp' =
                 IF ethereum.accounts = null THEN idle
                 ELSE [awaiting(checkConnectionOp, "getNetwork")
                          EXCEPT !.accounts = ethereum.accounts]
          /\ UNCHANGED <<walletState, provider, signer, walletEvent, auth,
                         location>>
       \/ /\ checkConnectionOp.pc = "getNetwork"
          /\ checkConnectionOp' =
                 [awaiting(checkConnectionOp, "getSigner")
                     EXCEPT !.chainId = <<ethereum.chainId>>]
          /\ UNCHANGED <<walletState, provider, signer, walletEvent, auth,
                         location>>
       \/ /\ checkConnectionOp.pc = "getSigner"
          /\ checkConnectionOp' = idle
          /\ IF ethereum.accounts = null
             THEN UNCHANGED <<walletState, provider, signer, walletEvent,
                              auth, location>>
             ELSE WalletCommit("checkConnection",
                               connectedState(checkConnectionOp.accounts,
                                              checkConnectionOp.chainId),
                               <<"BrowserProvider">>, ethereum.accounts)

\* the connect button, shown while the wallet is not connected and enabled
\* while it is not connecting
connect ==
    /\ ~walletState.isConnected /\ ~walletState.isConnecting
    /\ connectOp.pc = "idle"
    /\ connectOp' = awaiting(idle, "eth_requestAccounts")
    /\ WalletCommit("connect",
                    [walletState EXCEPT !.isConnecting = TRUE,
                                        !.error = null],
                    provider, signer)
    /\ UNCHANGED <<walletFrame, ethereum, checkConnectionOp>>

\* connect's catch block
connectFailed(message) ==
    /\ connectOp' = idle
    /\ WalletCommit("connectFailed",
                    [walletState EXCEPT !.isConnecting = FALSE,
                                        !.error = <<message>>],
                    provider, signer)

\* connect after its first state update, one await at a time; the user
\* approves the request for one of the accounts, or rejects it
connectAwaits ==
    /\ UNCHANGED <<walletFrame, checkConnectionOp>>
    /\ \/ /\ connectOp.pc = "eth_requestAccounts"
          /\ \E a \in Accounts :
                 ethereum' =
                    [ethereum EXCEPT
                        !.accounts = IF @ = null THEN <<a>> ELSE @]
          /\ connectOp' = awaiting(connectOp, "getNetwork")
          /\ UNCHANGED <<walletState, provider, signer, walletEvent, auth,
                         location>>
       \/ /\ connectOp.pc = "eth_requestAccounts"
          /\ connectFailed("User rejected the request")
          /\ UNCHANGED ethereum
       \/ /\ connectOp.pc = "getNetwork"
          /\ connectOp' = [awaiting(connectOp, "getSigner")
                              EXCEPT !.chainId = <<ethereum.chainId>>]
          /\ UNCHANGED <<walletState, provider, signer, walletEvent, auth,
                         ethereum, location>>
       \/ /\ connectOp.pc = "getSigner"
          /\ UNCHANGED ethereum
          /\ IF ethereum.accounts = null
             THEN connectFailed("Failed to connect wallet")
             ELSE /\ connectOp' = [awaiting(connectOp, "getAddress")
                                     EXCEPT !.signer = ethereum.accounts]
                  /\ UNCHANGED <<walletState, provider, signer, walletEvent,
                                 auth, location>>
       \/ /\ connectOp.pc = "getAddress"
          /\ UNCHANGED ethereum
          /\ connectOp' = idle
          /\ WalletCommit("connected",
                          connectedState(connectOp.signer, connectOp.chainId),
                          <<"BrowserProvider">>, connectOp.signer)

\* the disconnect button of the connected wallet
disconnectClicked ==
    /\ walletState.isConnected
    /\ disconnect("disconnect")
    /\ UNCHANGED <<walletFrame, ethereum, checkConnectionOp, connectOp>>

\* one event of the wallet hooks of one page, the user and the wallet
\* extension
NextWallet ==
    \/ \E a \in {null} \cup {<<x>> : x \in Accounts} : handleAccountsChanged(a)
    \/ \E c \in Chains : handleChainChanged(c)
    \/ checkConnection
    \/ connect
    \/ connectAwaits
    \/ disconnectClicked
    \/ \E a \in Accounts, ok \in BOOLEAN : roleFetched(a, ok)

\* ------------------------------------------------------------ RoleGuard
\* the permissions ROLE_PERMISSIONS sets to true, by role
ROLE_PERMISSIONS ==
    [r \in {EMPLOYEE, EMPLOYER, ADMIN, AUDITOR} |->
        CASE r = EMPLOYEE -> {"canViewOwnSalary", "canViewOwnHistory"}
          [] r = EMPLOYER -> {"canViewOwnSalary", "canViewOwnHistory",
                              "canViewCompanyData", "canManageEmployees"}
          [] r = ADMIN -> {"canViewOwnSalary", "canViewOwnHistory",
                           "canViewCompanyData", "canManageEmployees",
                           "canProcessPayroll", "canGenerateReports"}
          [] r = AUDITOR -> {"canViewCompanyData", "canGenerateReports"}]

hasPermission(user, permission) ==
    IF user = null THEN FALSE
    ELSE permission \in ROLE_PERMISSIONS[user[1].role]

\* what RoleGuard returns; an optional prop is null or <<its value>>, and
\* fallback says whether a fallback node was given
RoleGuard(props, isConnected, user, isLoading) ==
    LET denied(view) == IF props.fallback THEN "fallback" ELSE view
    IN IF isLoading THEN "loading"
       ELSE IF props.requireWallet /\ ~isConnected THEN "walletRequired"
       ELSE IF props.requireWallet /\ user = null THEN "userNotFound"
       ELSE IF /\ props.allowedRoles # null /\ user # null
               /\ user[1].role \notin props.allowedRoles[1]
            THEN denied("accessDenied")
       ELSE IF /\ props.requiredPermissions # null /\ user # null
               /\ \E q \in props.requiredPermissions[1] :
                      ~hasPermission(user, q)
            THEN denied("insufficientPermissions")
       ELSE "children"

\* allowedRoles of the convenience guards
EmployeeGuard == {EMPLOYEE, EMPLOYER, ADMIN}
EmployerGuard == {EMPLOYER, ADMIN}
AdminGuard == {ADMIN}
AuditorGuard == {AUDITOR, ADMIN}

\* the props a guard is used with: the guard of the dashboard routes, which
\* names no role, and guards by role with and without a required permission
GuardProps ==
    {[allowedRoles |-> null, requiredPermissions |-> null,
      fallback |-> FALSE, requireWallet |-> TRUE]}
    \cup [allowedRoles : {<<EmployeeGuard>>, <<EmployerGuard>>,
                          <<AdminGuard>>, <<AuditorGuard>>},
          requiredPermissions : {null, <<{"canProcessPayroll"}>>},
          fallback : BOOLEAN, requireWallet : BOOLEAN]

\* a RoleGuard with the given props renders under the current wallet and user
renderRoleGuard(props) ==
    /\ guardView' = [props |-> <<props>>, user |-> auth.user,
                     view |-> RoleGuard(props, walletState.isConnected,
                                        auth.user, auth.isLoading)]
    /\ UNCHANGED <<chainVars, accessVars, display, walletVars, auth,
                   location>>

\* the wallet connects, switches account or disconnects, role fetches return
\* and guards render
NextGuard ==
    \/ \E a \in {null} \cup {<<x>> : x \in Accounts} : handleAccountsChanged(a)
    \/ disconnectClicked
    \/ \E a \in Accounts, ok \in BOOLEAN : roleFetched(a, ok)
    \/ \E q \in GuardProps : renderRoleGuard(q)

\* --------------------------------------------------------------- routes
DashboardRoutes == {"/dashboard/employee", "/dashboard/employer",
                    "/dashboard/admin", "/dashboard/auditor"}

\* the roles the guard of each dashboard page admits
routeGuard ==
    [route \in DashboardRoutes |->
        CASE route = "/dashboard/employee" -> EmployeeGuard
          [] route = "/dashboard/employer" -> EmployerGuard
          [] route = "/dashboard/admin" -> AdminGuard
          [] route = "/dashboard/auditor" -> AuditorGuard]

Range(f) == {f[i] : i \in DOMAIN f}

\* DashboardPage shows its navigation to a connected, known user
dashboardShown ==
    location \in DashboardRoutes /\ walletState.isConnected /\ auth.user # null

\* a navigation option of the dashboard is clicked
selectDashboard(path) ==
    /\ dashboardShown
    /\ path \in Range(getDashboardOptions(auth.user))
    /\ location' = path
    /\ UNCHANGED <<chainVars, accessVars, display, walletVars, auth,
                   guardView>>

\* the menu's logout entry: disconnect, then navigate to /login
handleLogout ==
    /\ dashboardShown
    /\ WalletCommitAt("/login", "disconnect", disconnectedState, null, null)
    /\ UNCHANGED <<walletFrame, ethereum, checkConnectionOp, connectOp>>

\* the wallet connects, switches account or chain, or disconnects, role
\* fetches return and the user moves between the dashboards
NextRoutes ==
    \/ \E a \in {null} \cup {<<x>> : x \in Accounts} : handleAccountsChanged(a)
    \/ \E c \in Chains : handleChainChanged(c)
    \/ connect
    \/ connectAwaits
    \/ \E a \in Accounts, ok \in BOOLEAN : roleFetched(a, ok)
    \/ \E path \in DashboardRoutes : selectDashboard(path)
    \/ handleLogout

\* ---------------------------------------------------------------- time
\* a pay period of block time passes
Tick ==
    /\ now + payPeriodDays <= MaxTime
    /\ now' = now + payPeriodDays
    /\ UNCHANGED <<storage, lastCall, tokenVars, appVars>>

\* one transaction, with its caller and arguments drawn from the given sets;
\* at most maxPeriod payroll runs, and bonuses pending up to BonusCap
Step(callers, grantable, addrs, salaries, taxRates, maxPeriod) ==
    \/ \E c \in callers, g \in grantable : grantRole(c, g[1], g[2])
    \/ \E c \in callers, e \in addrs, s \in salaries, t \in taxRates :
           addEmployee(c, e, s, t)
    \/ \E c \in callers, e \in addrs, s \in salaries : updateSalary(c, e, s)
    \/ \E c \in callers, e \in addrs, b \in Bonuses :
           /\ Lt64(employees[e].encryptedBonus.val, BonusCap)
           /\ distributeBonus(c, e, b)
    \/ \E c \in callers : currentPayPeriod < maxPeriod /\ processPayroll(c)
    \/ \E c \in callers : generateComplianceReport(c)

\* every principal calls; one salary and one tax rate
Next ==
    \/ Step(Callers, Grantable, EmployeeAddrs, {ExampleSalary}, {ExampleTaxRate},
            MaxPeriod)
    \/ \E c \in Callers, e \in EmployeeAddrs : removeEmployee(c, e)
Spec == Init /\ [][Next]_vars

\* the owner, who holds the payroll roles and no auditor role, calls; the
\* salary bounds and two tax rates
NextPay == Step({Owner}, {<<EMPLOYER_ROLE, Owner>>}, EmployeeAddrs,
                Salaries, TaxRates, MaxPeriod)
SpecPay == Init /\ [][NextPay]_vars

\* the owner calls and block time passes; the example salary and tax rate
NextClock ==
    \/ Step({Owner}, {<<AUDITOR_ROLE, Owner>>}, EmployeeAddrs,
            {ExampleSalary}, {ExampleTaxRate}, MaxClockPeriod)
    \/ Tick
SpecClock == Init /\ [][NextClock]_vars

\* a batch of up to MaxBatch entries, each one of the given kinds of entry
\* [employee, gross, tax], or three arrays of up to MaxBatch entries whose
\* lengths differ
BatchStep(callers, kinds) ==
    /\ Lt64(pendingWithholdings[TaxAuthority].val, PendingCap)
    /\ \/ \E c \in callers, n \in 0..MaxBatch :
            \E k \in [1..n -> kinds] :
                batchProcessPayroll(c, [i \in 1..n |-> k[i].employee],
                                    [i \in 1..n |-> k[i].gross],
                                    [i \in 1..n |-> k[i].tax])
       \/ \E c \in callers, ne \in 0..MaxBatch, ng \in 0..MaxBatch,
              nt \in 0..MaxBatch :
            LET any == CHOOSE x \in kinds : TRUE
            IN /\ ~(ne = ng /\ ne = nt)
               /\ batchProcessPayroll(c, [i \in 1..ne |-> any.employee],
                                      [i \in 1..ng |-> any.gross],
                                      [i \in 1..nt |-> any.tax])

\* PayrollToken, one payment at a time: the owner, a second manager and an
\* employee call; payments of 6 units with a tax of 1 or 7 units
NextToken ==
    TokenStep(TokenCallers, {EmployerAcct}, {<<EmployerAcct, Units(4)>>},
              Items({Employee1}, {Units(6)}, {Units(1), Units(7)},
                    BOOLEAN, {TRUE}))
SpecToken == Init /\ [][NextToken]_vars

\* PayrollToken with batches: the owner, who may drop and regain the manager
\* flag, and a second account call; arrays over two employees, payments of
\* 6 units the sender may or may not use, a tax of 1 unit
BatchCallers == {Owner, EmployerAcct}
BatchKinds ==
    {[employee |-> Employee1, gross |-> [val |-> Units(6), allowed |-> TRUE],
      tax |-> [val |-> Units(1), allowed |-> TRUE]],
     [employee |-> Employee2, gross |-> [val |-> Units(6), allowed |-> TRUE],
      tax |-> [val |-> Units(1), allowed |-> TRUE]],
     [employee |-> Employee1, gross |-> [val |-> Units(6), allowed |-> FALSE],
      tax |-> [val |-> Units(1), allowed |-> TRUE]]}
NextBatch ==
    \/ TokenStep(BatchCallers, {Owner}, {<<EmployerAcct, Units(4)>>},
                 Items({Employee1}, {Units(6)}, {Units(1)}, {TRUE}, {TRUE}))
    \/ BatchStep(BatchCallers, BatchKinds)
SpecBatch == Init /\ [][NextBatch]_vars

\* PayrollToken with single payments and remittances by the owner and by a
\* second manager whose balance may not cover them, and batches by the owner
NextSupply ==
    \/ TokenStep(BatchCallers, {EmployerAcct}, {<<EmployerAcct, Units(4)>>},
                 Items({Employee1}, {Units(6)}, {Units(1), Units(7)},
                       {TRUE}, {TRUE}))
    \/ BatchStep({Owner}, {k \in BatchKinds : k.gross.allowed})
SpecSupply == Init /\ [][NextSupply]_vars

SpecAccess == Init /\ [][NextAccess]_vars

SpecDisplay == Init /\ [][NextDisplay]_vars

SpecWallet == Init /\ [][NextWallet]_vars

SpecGuard == Init /\ [][NextGuard]_vars

SpecRoutes == Init /\ [][NextRoutes]_vars

\* ============================================================ claims

\* the role each gated operation is declared with
RequiredRole(op) ==
    CASE op \in {"addEmployee", "updateSalary", "processPayroll"} -> PAYROLL_ADMIN_ROLE
      [] op = "distributeBonus" -> EMPLOYER_ROLE
      [] op = "generateComplianceReport" -> AUDITOR_ROLE
      [] OTHER -> DEFAULT_ADMIN_ROLE

\* C1: a call of addEmployee, updateSalary, processPayroll, distributeBonus or
\* generateComplianceReport by a caller without the operation's role is
\* rejected by the role check and changes no storage; a caller holding the
\* role is not rejected by it.
C1_RoleGate ==
    [][(now' = now /\ lastCall'.op # "removeEmployee") =>
         IF <<RequiredRole(lastCall'.op), lastCall'.caller>> \in roles
         THEN lastCall'.status # "AccessControl"
         ELSE lastCall'.status = "AccessControl" /\ UNCHANGED storage]_vars

\* an Employee-role caller was refused distributeBonus on an active employee
C1_Witness ==
    /\ lastCall.op = "distributeBonus"
    /\ lastCall.caller = Employee1
    /\ lastCall.status = "AccessControl"
    /\ employees[lastCall.employee].isActive
    /\ <<EMPLOYER_ROLE, EmployerAcct>> \in roles

\* C2: for a caller holding the role, addEmployee of an active employee fails
\* with "Employee already exists", and updateSalary or distributeBonus of an
\* address that is not an active employee fails with "Employee not found";
\* the failed call leaves the records, totalEmployees, the budget and the
\* grants as they were.
C2_ExistenceChecks ==
    [][(/\ now' = now
        /\ <<RequiredRole(lastCall'.op), lastCall'.caller>> \in roles
        /\ \/ /\ lastCall'.op = "addEmployee"
              /\ employees[lastCall'.employee].isActive
           \/ /\ lastCall'.op \in {"updateSalary", "distributeBonus"}
              /\ ~employees[lastCall'.employee].isActive)
       => /\ lastCall'.status = (IF lastCall'.op = "addEmployee"
                                 THEN "Employee already exists"
                                 ELSE "Employee not found")
          /\ UNCHANGED storage]_vars

\* a second addEmployee of an active employee has been refused
C2_Witness ==
    /\ lastCall.op = "addEmployee"
    /\ lastCall.status = "Employee already exists"
    /\ employees[lastCall.employee].isActive
    /\ totalEmployees = 1

\* C3: a successful addEmployee(e, salary, taxRate) leaves an active record
\* for e whose salary decrypts to the plaintext passed in, with bonus, YTD
\* earnings and YTD tax zero, and raises totalEmployees by one.
C3_AddEmployee ==
    [][(now' = now /\ lastCall'.op = "addEmployee" /\ lastCall'.status = "ok")
       => LET e == lastCall'.employee
          IN /\ employees'[e].isActive
             /\ employees'[e].encryptedSalary.val = lastCall'.input
             /\ employees'[e].encryptedBonus.val = Zero64
             /\ employees'[e].encryptedYTDEarnings.val = Zero64
             /\ employees'[e].encryptedYTDTax.val = Zero64
             /\ totalEmployees' = totalEmployees + 1]_vars

\* the second employee has just been added with the largest salary
C3_Witness ==
    /\ lastCall.op = "addEmployee"
    /\ lastCall.status = "ok"
    /\ lastCall.input = MAX_SALARY
    /\ isEmployee(lastCall.employee)
    /\ totalEmployees = 2

\* C4: every active employee holds a decrypt grant on the ciphertext stored
\* as their salary.
C4_SalaryGrant ==
    \A e \in EmployeeAddrs :
        employees[e].isActive => e \in employees[e].encryptedSalary.allowed

\* an employee's salary has just been replaced by another value
C4_Witness ==
    /\ lastCall.op = "updateSalary"
    /\ lastCall.status = "ok"
    /\ lastCall.employee = Employee1
    /\ employees[Employee1].encryptedSalary.val = MIN_SALARY
    /\ config.encryptedTotalBudget.val = MIN_SALARY

\* the ciphertexts of employee e's individual record and payments
IndividualCiphertexts(e) ==
    {employees[e].encryptedSalary, employees[e].encryptedBonus,
     employees[e].encryptedTaxRate, employees[e].encryptedYTDEarnings,
     employees[e].encryptedYTDTax}
    \cup {paymentHistory[e][p] : p \in Periods}

ActiveEmployees == {e \in EmployeeAddrs : employees[e].isActive}

RECURSIVE SumYTDEarnings(_)
SumYTDEarnings(S) ==
    IF S = {} THEN Zero64
    ELSE LET e == CHOOSE x \in S : TRUE
         IN Add64(employees[e].encryptedYTDEarnings.val, SumYTDEarnings(S \ {e}))

RECURSIVE SumYTDTax(_)
SumYTDTax(S) ==
    IF S = {} THEN Zero64
    ELSE LET e == CHOOSE x \in S : TRUE
         IN Add64(employees[e].encryptedYTDTax.val, SumYTDTax(S \ {e}))

\* C6: the two aggregates of a compliance report are the sums of the YTD
\* earnings and of the YTD tax over the active employees, each counted once.
C6_ReportSums ==
    (lastCall.op = "generateComplianceReport" /\ lastCall.status = "ok")
    => /\ lastCall.totalPaid.val = SumYTDEarnings(ActiveEmployees)
       /\ lastCall.totalTax.val = SumYTDTax(ActiveEmployees)

\* C7: a successful processPayroll reports as many employees as are active
\* and leaves a payment record of the new period for each of them.
C7_AllActivePaid ==
    (lastCall.op = "processPayroll" /\ lastCall.status = "ok")
    => /\ lastCall.count = Cardinality(ActiveEmployees)
       /\ \A e \in ActiveEmployees : paymentHistory[e][currentPayPeriod].init

\* C8: for an active employee with salary 5000000, tax rate 20 and no
\* pending bonus, processPayroll records the net pay 4000000 and raises the
\* YTD earnings by 5000000 and the YTD tax by 1000000.
C8_ExampleNetPay ==
    [][(now' = now /\ lastCall'.op = "processPayroll" /\ lastCall'.status = "ok")
       => \A e \in EmployeeAddrs :
            (/\ employees[e].isActive
             /\ employees[e].encryptedSalary.val = ExampleSalary
             /\ employees[e].encryptedTaxRate.val = ExampleTaxRate
             /\ employees[e].encryptedBonus.val = Zero64)
            => /\ paymentHistory'[e][currentPayPeriod'].val = U64(4000000)
               /\ employees'[e].encryptedYTDEarnings.val =
                      Add64(employees[e].encryptedYTDEarnings.val, U64(5000000))
               /\ employees'[e].encryptedYTDTax.val =
                      Add64(employees[e].encryptedYTDTax.val, U64(1000000))]_vars

\* C9: with salaries in [MIN_SALARY, MAX_SALARY] and tax rates in percent
\* units, no 64-bit add, subtract or multiply step of a transaction wraps.
C9_NoWrap == ~lastCall.wrapped

\* C10: an employee that holds a payment record of the current period and
\* whose next payment is not yet due (less than payPeriodDays since the last
\* payment) is not paid again: no step changes the YTD figures or the
\* payment records of that employee.
C10_NoDoublePayment ==
    [][\A e \in EmployeeAddrs :
         (/\ employees[e].isActive
          /\ currentPayPeriod >= 1
          /\ paymentHistory[e][currentPayPeriod].init
          /\ now < employees[e].lastPaymentTimestamp + config.payPeriodDays)
         => /\ employees'[e].encryptedYTDEarnings.val =
                   employees[e].encryptedYTDEarnings.val
            /\ employees'[e].encryptedYTDTax.val = employees[e].encryptedYTDTax.val
            /\ paymentHistory'[e] = paymentHistory[e]]_vars

\* the sum of the net payments hist records for the given period
RECURSIVE SumNetPay(_, _, _)
SumNetPay(hist, period, S) ==
    IF S = {} THEN Zero64
    ELSE LET e == CHOOSE x \in S : TRUE
         IN Add64(IF hist[e][period].init THEN hist[e][period].val ELSE Zero64,
                  SumNetPay(hist, period, S \ {e}))

\* C11: a successful processPayroll run debits the encrypted total budget
\* by the sum of the net payments it records for the new period.
C11_Conservation ==
    [][(lastCall'.op = "processPayroll" /\ lastCall'.status = "ok"
        /\ currentPayPeriod' = currentPayPeriod + 1)
       => Sub64(config.encryptedTotalBudget.val, config'.encryptedTotalBudget.val)
              = SumNetPay(paymentHistory', currentPayPeriod', EmployeeAddrs)]_vars

\* the net pay the payroll loop computes for an employee record
netPayOf(employee) ==
    LET grossPay == Add64(employee.encryptedSalary.val, employee.encryptedBonus.val)
    IN Sub64(grossPay, Mul64(grossPay, employee.encryptedTaxRate.val))

\* C12: a successful processPayroll run raises the token balance of every
\* active employee by the employee's net pay when the treasury balance
\* covers it, and leaves that balance unchanged otherwise.
C12_TokenSettlement ==
    [][(lastCall'.op = "processPayroll" /\ lastCall'.status = "ok"
        /\ currentPayPeriod' = currentPayPeriod + 1)
       => \A e \in EmployeeAddrs \cap TokenHolders :
            employees[e].isActive
            => balances'[e].val =
                   IF Le64(netPayOf(employees[e]),
                           balances[config.treasuryAddress].val)
                   THEN Add64(balances[e].val, netPayOf(employees[e]))
                   ELSE balances[e].val]_vars

\* C13: a successful processPayrollPayment moves grossPay - taxAmount from
\* the calling manager to the employee when grossPay <= the manager's
\* balance and nothing otherwise, and the manager's balance does not wrap.
C13_ConditionalTransfer ==
    [][(tokenCall'.op = "processPayrollPayment" /\ tokenCall'.status = "ok")
       => LET item == tokenCall'.items[1]
              payer == tokenCall'.caller
              amount == IF Le64(item.grossPay, balances[payer].val)
                        THEN Sub64(item.grossPay, item.taxAmount)
                        ELSE Zero64
          IN /\ tokenCall'.moved[1] = amount
             /\ Le64(amount, balances[payer].val)
             /\ balances'[payer].val = Sub64(balances[payer].val, amount)
             /\ balances'[item.employee].val =
                    Add64(balances[item.employee].val, amount)]_vars

\* C14: distributeBonus adds to the pending bonus and neither writes a
\* payment record nor moves a balance; the next successful processPayroll
\* run pays the pending bonus of every active employee (a payment record of
\* the new period, YTD earnings risen by at least the bonus) and resets it to
\* zero.
C14_BonusPaidOnce ==
    [][/\ (lastCall'.op = "distributeBonus" /\ lastCall'.status = "ok"
           /\ lastCall' # lastCall)
          => /\ UNCHANGED <<paymentHistory, balances>>
             /\ \A e \in EmployeeAddrs :
                  employees'[e].encryptedBonus.val =
                      IF e = lastCall'.employee
                      THEN Add64(employees[e].encryptedBonus.val, lastCall'.input)
                      ELSE employees[e].encryptedBonus.val
       /\ (lastCall'.op = "processPayroll" /\ lastCall'.status = "ok"
           /\ currentPayPeriod' = currentPayPeriod + 1)
          => \A e \in EmployeeAddrs :
               (employees[e].isActive /\ employees[e].encryptedBonus.val # Zero64)
               => /\ employees'[e].encryptedBonus.val = Zero64
                  /\ paymentHistory'[e][currentPayPeriod'].init]_vars

RECURSIVE SumSalaries(_)
SumSalaries(S) ==
    IF S = {} THEN Zero64
    ELSE LET e == CHOOSE x \in S : TRUE
         IN Add64(employees[e].encryptedSalary.val, SumSalaries(S \ {e}))

\* C15: the encrypted total budget is the sum of the current salaries of
\* the active employees.
C15_BudgetIsSalarySum ==
    config.encryptedTotalBudget.val = SumSalaries(ActiveEmployees)

\* a salary was updated to the lower bound while another employee earns the
\* upper bound
C15_Witness ==
    /\ lastCall.op = "updateSalary" /\ lastCall.status = "ok"
    /\ lastCall.input = MIN_SALARY
    /\ ActiveEmployees = EmployeeAddrs
    /\ \E e \in EmployeeAddrs : employees[e].encryptedSalary.val = MAX_SALARY
    /\ config.encryptedTotalBudget.val = Add64(MIN_SALARY, MAX_SALARY)

\* C16: after removeEmployee(e) by the payroll admin, e is no longer an
\* employee (the call goes through and isEmployee(e) is false).
C16_LogicalRemoval ==
    (lastCall.op = "removeEmployee"
     /\ hasRole(PAYROLL_ADMIN_ROLE, lastCall.caller))
    => /\ lastCall.status = "ok"
       /\ ~isEmployee(lastCall.employee)

\* C17: a payment record is written at most once: no step changes a record
\* that exists, and the record a processPayroll run leaves for an employee is
\* the one its first visit of that employee wrote.
C17_RecordImmutable ==
    [][/\ \A e \in EmployeeAddrs, p \in Periods :
            paymentHistory[e][p].init
            => paymentHistory'[e][p] = paymentHistory[e][p]
       /\ (lastCall'.op = "processPayroll" /\ lastCall'.status = "ok"
           /\ currentPayPeriod' = currentPayPeriod + 1)
          => \A e \in EmployeeAddrs :
               LET first == payEmployee([emps |-> employees,
                                         hist |-> paymentHistory,
                                         count |-> 0, wrapped |-> FALSE],
                                        e, currentPayPeriod')
               IN paymentHistory'[e][currentPayPeriod'].init
                  => paymentHistory'[e][currentPayPeriod'] =
                         first.hist[e][currentPayPeriod']]_vars

ManagerOps == {"processPayrollPayment", "batchProcessPayroll",
               "remitTaxWithholdings"}

\* C18: only the token owner adds or removes payroll managers, the added
\* address is a manager and the removed one is not; processPayrollPayment,
\* batchProcessPayroll and remitTaxWithholdings go through only for a caller
\* that is a manager at that time and are otherwise rejected with the
\* token storage unchanged.
C18_ManagerGate ==
    [][/\ tokenCall'.op \in {"addPayrollManager", "removePayrollManager"}
          => IF tokenCall'.caller = Owner
             THEN /\ tokenCall'.status = "ok"
                  /\ payrollManagers' =
                         IF tokenCall'.op = "addPayrollManager"
                         THEN payrollManagers \cup {tokenCall'.target}
                         ELSE payrollManagers \ {tokenCall'.target}
                  /\ UNCHANGED <<pendingWithholdings, balances, totalSupply>>
             ELSE tokenCall'.status = "Ownable" /\ UNCHANGED tokenStorage
       /\ tokenCall'.op \in ManagerOps
          => IF tokenCall'.caller \in payrollManagers
             THEN tokenCall'.status # "Not a payroll manager"
             ELSE /\ tokenCall'.status = "Not a payroll manager"
                  /\ UNCHANGED tokenStorage]_vars

\* the deployer, a manager that paid an employee, lost the manager flag and
\* is then refused
C18_Witness ==
    /\ tokenCall.op \in ManagerOps
    /\ tokenCall.caller = Owner
    /\ tokenCall.status = "Not a payroll manager"
    /\ Owner \notin payrollManagers
    /\ balances[Employee1].init

\* C19: a successful remitTaxWithholdings raises the tax authority's
\* balance by the withholdings that were pending and leaves none pending.
C19_RemitDelivers ==
    [][(tokenCall'.op = "remitTaxWithholdings" /\ tokenCall'.status = "ok")
       => /\ balances'[TaxAuthority].val =
                 Add64(balances[TaxAuthority].val,
                       pendingWithholdings[TaxAuthority].val)
          /\ pendingWithholdings'[TaxAuthority].val = Zero64]_vars

\* the outcome of paying the items one after the other in array order from
\* the payer's balance: an item moves grossPay - taxAmount when the balance
\* left covers grossPay and nothing otherwise, and books its tax;
\* acc = [bal, pending, moved]
RECURSIVE InOrder(_, _, _, _)
InOrder(acc, payer, items, i) ==
    IF i > Len(items) THEN acc
    ELSE LET item == items[i]
             amount == IF Le64(item.grossPay, acc.bal[payer])
                       THEN Sub64(item.grossPay, item.taxAmount) ELSE Zero64
             paid == [acc.bal EXCEPT ![payer] = Sub64(@, amount)]
         IN InOrder([bal |-> [paid EXCEPT ![item.employee] = Add64(@, amount)],
                     pending |-> Add64(acc.pending, item.taxAmount),
                     moved |-> Append(acc.moved, amount)],
                    payer, items, i + 1)

\* C20: a batch whose arrays differ in length is rejected with "Array length
\* mismatch"; a batch with an item the sender may not use is rejected; a
\* rejected batch changes no token storage; a batch that goes through leaves
\* the balances and pending withholdings of paying its items one after the
\* other in array order.
C20_BatchInOrder ==
    [][tokenCall'.op = "batchProcessPayroll"
       => LET call == tokenCall'
              start == [bal |-> [a \in TokenHolders |-> balances[a].val],
                        pending |-> pendingWithholdings[TaxAuthority].val,
                        moved |-> <<>>]
              expected == InOrder(start, call.caller, call.items, 1)
          IN /\ call.status # "ok" => UNCHANGED tokenStorage
             /\ (call.mismatch /\ call.caller \in payrollManagers)
                => call.status = "Array length mismatch"
             /\ call.status = "Array length mismatch" => call.mismatch
             /\ (\E i \in 1..Len(call.items) :
                     ~call.items[i].grossAllowed \/ ~call.items[i].taxAllowed)
                => call.status # "ok"
             /\ call.status = "ok"
                => /\ call.moved = expected.moved
                   /\ \A a \in TokenHolders : balances'[a].val = expected.bal[a]
                   /\ pendingWithholdings'[TaxAuthority].val = expected.pending
                   /\ payrollManagers' = payrollManagers]_vars

\* a batch of two went through whose first item used up the balance the
\* second one needed
C20_Witness ==
    /\ tokenCall.op = "batchProcessPayroll" /\ tokenCall.status = "ok"
    /\ Len(tokenCall.items) = 2
    /\ tokenCall.items[1].employee # tokenCall.items[2].employee
    /\ tokenCall.moved = <<Units(5), Zero64>>

\* C21: getEmployee lets a caller read an employee's record exactly when the
\* caller is that employee, the employer the record belongs to, an admin or
\* an auditor with a standing grant for that employer; everybody else, a
\* different registered employer and an unregistered address included, is
\* refused
C21_AccessPredicate ==
    (accessCall.op = "getEmployee"
        /\ employeeRecords[accessCall.employeeId] # NoRecord)
    => LET rec == employeeRecords[accessCall.employeeId]
           c == accessCall.caller
       IN (accessCall.status = "ok")
          <=> (c = rec.employee \/ c = rec.employer \/ c = Admin
               \/ <<c, rec.employer>> \in auditorAccess)

\* a registered employer was refused the record of another employer's
\* employee
C21_Witness ==
    /\ accessCall.op = "getEmployee"
    /\ accessCall.status = "Not authorized to access employee data"
    /\ employeeRecords[accessCall.employeeId] # NoRecord
    /\ accessCall.caller \in employers
    /\ accessCall.caller # employeeRecords[accessCall.employeeId].employer

\* C22: a failed decrypt request is retried by the component: when a request
\* fails while the value is to be shown, the component keeps the value
\* requested and has the request in flight again, so that the value is
\* displayed once the oracle answers
C22_RetryAfterFailure ==
    [][(display.isVisible /\ display.isDecrypting
            /\ display'.event = "decryptRejected" /\ display' # display)
        => (display'.isVisible /\ display'.isDecrypting)]_vars

C28_WalletConsistent ==
    /\ walletState.isConnected
        => /\ walletState.address # null
           /\ provider # null
           /\ signer # null
           /\ signer = walletState.address
    /\ (walletEvent = "disconnect"
            \/ (walletEvent = "accountsChanged" /\ ethereum.accounts = null))
        => /\ ~walletState.isConnected
           /\ walletState.address = null
           /\ walletState.chainId = null
           /\ provider = null
           /\ signer = null

\* C29: once no role fetch is in flight, useRole's user is null when no
\* address is connected, and otherwise is the user of the connected address
\* with the role the contract holds for it, or Employee when the lookup
\* failed
C29_UserMatchesWallet ==
    auth.fetches = {}
    => IF walletState.address = null
       THEN auth.user = null
       ELSE /\ auth.user # null
            /\ auth.user[1].address = walletState.address[1]
            /\ auth.user[1].role
                  \in {getUserRole(walletState.address[1], TRUE)[1], EMPLOYEE}

\* C24: a RoleGuard renders its children only for a known user whose role is
\* among allowedRoles and who holds every required permission; in every other
\* case, whatever requireWallet is, another view is rendered
C24_GuardProtects ==
    guardView.view = "children"
    => LET q == guardView.props[1]
           user == guardView.user
       IN /\ user # null
          /\ q.allowedRoles # null => user[1].role \in q.allowedRoles[1]
          /\ q.requiredPermissions # null
                => \A perm \in q.requiredPermissions[1] :
                       perm \in ROLE_PERMISSIONS[user[1].role]

\* C30: for the user's role, a dashboard route is listed by
\* getAccessibleRoutes, and by the dashboard's navigation options, exactly when
\* the guard of the route's page admits the role; getDefaultRoute is such a
\* route, and /login while no user is known
C30_RoutesConsistent ==
    IF auth.user = null
    THEN getDefaultRoute(auth.user) = "/login"
    ELSE /\ \A route \in DashboardRoutes :
               /\ route \in Range(getAccessibleRoutes(auth.user))
                     <=> auth.user[1].role \in routeGuard[route]
               /\ route \in Range(getDashboardOptions(auth.user))
                     <=> auth.user[1].role \in routeGuard[route]
         /\ getDefaultRoute(auth.user) \in Range(getAccessibleRoutes(auth.user))
         /\ getDefaultRoute(auth.user) \in DashboardRoutes
         /\ auth.user[1].role \in routeGuard[getDefaultRoute(auth.user)]

\* C25: after a successful addEmployee, updateSalary, distributeBonus or
\* processPayroll the payroll contract holds a standing grant for itself on
\* the total budget and on the salary, tax rate, pending bonus, year-to-date
\* earnings and year-to-date tax of every active employee
C25_ContractKeepsGrant ==
    (/\ lastCall.op \in {"addEmployee", "updateSalary", "distributeBonus",
                         "processPayroll"}
     /\ lastCall.status = "ok")
    => /\ This \in config.encryptedTotalBudget.allowed
       /\ \A e \in EmployeeAddrs :
             employees[e].isActive
             => /\ This \in employees[e].encryptedSalary.allowed
                /\ This \in employees[e].encryptedTaxRate.allowed
                /\ This \in employees[e].encryptedBonus.allowed
                /\ This \in employees[e].encryptedYTDEarnings.allowed
                /\ This \in employees[e].encryptedYTDTax.allowed

\* C26: the balances of all accounts add up, without wrapping, to the
\* initial supply minted to the deployer, and totalSupply is that supply,
\* after every processPayrollPayment, batchProcessPayroll and
\* remitTaxWithholdings
C26_SupplyConserved ==
    /\ sumOfBalances(balances, TokenHolders) =
           [val |-> initialSupply, wrapped |-> FALSE]
    /\ totalSupply.val = initialSupply

\* a batch has moved tokens after a remittance reached the tax authority
\* and a manager's transfer was withheld for lack of balance
C26_Witness ==
    /\ tokenCall.op = "batchProcessPayroll"
    /\ tokenCall.status = "ok"
    /\ \E i \in DOMAIN tokenCall.moved : tokenCall.moved[i] # Zero64
    /\ balances[TaxAuthority].val # Zero64
    /\ balances[EmployerAcct].init

\* C27: a successful processPayrollPayment adds taxAmount to the pending
\* withholdings when its net-pay transfer was made and leaves them unchanged
\* when the payment moved nothing for lack of funds; a successful
\* remitTaxWithholdings leaves zero pending only when the amount that was
\* pending has been transferred to the tax authority
C27_TaxFollowsTransfer ==
    [][/\ (tokenCall'.op = "processPayrollPayment" /\ tokenCall'.status = "ok")
          => LET item == tokenCall'.items[1]
                 made == /\ Le64(item.grossPay, balances[tokenCall'.caller].val)
                         /\ tokenCall'.moved[1] =
                                Sub64(item.grossPay, item.taxAmount)
             IN pendingWithholdings'[TaxAuthority].val =
                    IF made
                    THEN Add64(pendingWithholdings[TaxAuthority].val,
                               item.taxAmount)
                    ELSE pendingWithholdings[TaxAuthority].val
       /\ (/\ tokenCall'.op = "remitTaxWithholdings"
           /\ tokenCall'.status = "ok"
           /\ pendingWithholdings'[TaxAuthority].val = Zero64)
          => /\ tokenCall'.moved[1] = pendingWithholdings[TaxAuthority].val
             /\ balances'[TaxAuthority].val =
                    Add64(balances[TaxAuthority].val,
                          pendingWithholdings[TaxAuthority].val)]_vars

====
